---- MODULE Spec2Model ----
(***************************************************************************)
(* dir-ingest: walk a directory tree, filter the files, sort the accepted  *)
(* ones and serialize them.  The repository holds three variants of the    *)
(* same main():                                                            *)
(*   "v1"  src/unnamed/part_000  include/exclude globs, no skip report     *)
(*   "v2"  src/main.go           include/exclude globs, skip report, -p    *)
(*   "v3"  src/unnamed/part_001  ignore file, -x, -xe, skip report, -p, -v *)
(* Strings are sequences of one-character strings, so that Ext, Base,      *)
(* Match, ToLower and the byte order of paths are computed, not assumed.   *)
(***************************************************************************)
EXTENDS Integers, Sequences, FiniteSets, TLC

VARIABLES
    variant,        \* which main() runs
    includes,       \* -i patterns (v1, v2)
    excludes,       \* -e patterns (v1, v2)
    ignoreLines,    \* lines of the ignore file, or NoIgnoreFile (v3)
    excludeExts,    \* -xe values (v3)
    langOnly,       \* -x (v3)
    sizeLimitKB,    \* -s
    fs,             \* the directory tree's attributes, as the system calls report them
    pc,             \* position of main(): "start", "walk", "sorted", "done" (returned), "fatal" (log.Fatalf)
    todo,           \* entries WalkDir has still to hand to the callback, in order
    files,          \* []fileData
    skippedFiles,   \* skip messages
    statted,        \* paths d.Info() was called on
    reads,          \* paths os.ReadFile was called on
    serVariant,     \* serializer under test
    serFormat,      \* "markdown" | "xml" | "text"
    serPath,        \* fileData.path of the file being serialized
    serContent,     \* fileData.content of the file being serialized
    serOut,         \* what the build function wrote to the strings.Builder
    outFormat,      \* the build function the switch on -c, -m chose
    prependPath,    \* -p (v2, v3)
    stdout,         \* what fmt.Print wrote
    stderr          \* the log lines written after the skip report

walkVars == <<variant, includes, excludes, ignoreLines, excludeExts, langOnly,
              sizeLimitKB, fs, pc, todo, files, skippedFiles, statted, reads>>
serVars == <<serVariant, serFormat, serPath, serContent, serOut>>
outVars == <<outFormat, prependPath, stdout, stderr>>
vars == <<walkVars, serVars, outVars>>

(***************************************************************************)
(* Bounds of the model.                                                    *)
(***************************************************************************)
\* at most this many entries of the tree deviate from a small readable file
MaxOdd == 1
\* -s ranges over 0..MaxSizeLimitKB
MaxSizeLimitKB == 1
\* serialized contents have at most this many characters
MaxLen == 3

(***************************************************************************)
(* Characters and strings.                                                 *)
(***************************************************************************)
UpperSeq == <<"A","B","C","D","E","F","G","H","I","J","K","L","M",
              "N","O","P","Q","R","S","T","U","V","W","X","Y","Z">>
LowerSeq == <<"a","b","c","d","e","f","g","h","i","j","k","l","m",
              "n","o","p","q","r","s","t","u","v","w","x","y","z">>

IsUpper(c) == \E i \in 1..26 : UpperSeq[i] = c
IsLower(c) == \E i \in 1..26 : LowerSeq[i] = c
IndexIn(seq, c) == CHOOSE i \in 1..Len(seq) : seq[i] = c

\* the byte value of a character (ASCII)
Ord(c) ==
    IF IsUpper(c) THEN 64 + IndexIn(UpperSeq, c)
    ELSE IF IsLower(c) THEN 96 + IndexIn(LowerSeq, c)
    ELSE CASE c = " " -> 32
           [] c = "!" -> 33
           [] c = "(" -> 40
           [] c = "*" -> 42
           [] c = "-" -> 45
           [] c = "." -> 46
           [] c = "/" -> 47
           [] c = "?" -> 63
           [] c = "_" -> 95

\* strings.ToLower on one character
LowerChar(c) == IF IsUpper(c) THEN LowerSeq[IndexIn(UpperSeq, c)] ELSE c
ToLower(s) == [i \in 1..Len(s) |-> LowerChar(s[i])]

\* Go's s < t on strings: byte-wise lexicographic
RECURSIVE StrLess(_, _)
StrLess(s, t) ==
    IF t = <<>> THEN FALSE
    ELSE IF s = <<>> THEN TRUE
    ELSE IF Head(s) # Head(t) THEN Ord(Head(s)) < Ord(Head(t))
    ELSE StrLess(Tail(s), Tail(t))

\* strings.EqualFold, on ASCII
EqualFold(s, t) == ToLower(s) = ToLower(t)

\* strings.HasPrefix
HasPrefix(s, pre) == Len(s) >= Len(pre) /\ SubSeq(s, 1, Len(pre)) = pre

Separator == "/"

\* positions of the path separator in p
SepPositions(p) == {i \in 1..Len(p) : p[i] = Separator}
LastSep(p) == IF SepPositions(p) = {} THEN 0
              ELSE CHOOSE i \in SepPositions(p) : \A j \in SepPositions(p) : j <= i

\* filepath.Base, for a clean relative path
Base(p) == SubSeq(p, LastSep(p) + 1, Len(p))

\* filepath.Ext: the suffix from the last dot of the last element, or ""
Ext(p) ==
    LET dots == {i \in (LastSep(p) + 1)..Len(p) : p[i] = "."}
    IN IF dots = {} THEN <<>>
       ELSE SubSeq(p, CHOOSE i \in dots : \A j \in dots : j <= i, Len(p))

\* filepath.ToSlash
ToSlash(p) == [i \in 1..Len(p) |-> IF p[i] = Separator THEN "/" ELSE p[i]]

\* filepath.Match for patterns made of literals, '*' and '?':
\* '*' matches any run of non-separator characters, '?' one of them
RECURSIVE Match(_, _)
Match(pattern, name) ==
    IF pattern = <<>> THEN name = <<>>
    ELSE IF Head(pattern) = "*"
         THEN Match(Tail(pattern), name)
              \/ (name # <<>> /\ Head(name) # Separator /\ Match(pattern, Tail(name)))
    ELSE IF Head(pattern) = "?"
         THEN name # <<>> /\ Head(name) # Separator /\ Match(Tail(pattern), Tail(name))
    ELSE name # <<>> /\ Head(name) = Head(pattern) /\ Match(Tail(pattern), Tail(name))

\* "for _, pattern := range patterns { if matched, _ := filepath.Match(...) ..."
MatchesAny(patterns, relPath) ==
    \E i \in 1..Len(patterns) : Match(patterns[i], relPath)

(***************************************************************************)
(* The static lookup tables.                                               *)
(***************************************************************************)
defaultExtensions == {
    <<".","g","o">>, <<".","p","y">>, <<".","j","s">>, <<".","t","s">>, <<".","j","a","v","a">>,
    <<".","c">>, <<".","h">>, <<".","c","p","p">>, <<".","c","s">>, <<".","r","s">>, <<".","r","b">>,
    <<".","p","h","p">>, <<".","s","w","i","f","t">>, <<".","k","t">>, <<".","k","t","s">>,
    <<".","s","c","a","l","a">>, <<".","p","l">>, <<".","p","m">>, <<".","s","h">>,
    <<".","h","t","m","l">>, <<".","c","s","s">>, <<".","s","c","s","s">>, <<".","l","e","s","s">>,
    <<".","j","s","o","n">>, <<".","y","a","m","l">>, <<".","y","m","l">>, <<".","x","m","l">>,
    <<".","t","o","m","l">>, <<".","i","n","i">>, <<".","e","n","v">>, <<".","m","d">>,
    <<".","t","x","t">>, <<".","r","s","t">>, <<".","s","q","l">> }

\* languageExtMap of v1 and v2
languageExtMap ==
    <<".","g","o">> :> <<"g","o">> @@
    <<".","p","y">> :> <<"p","y","t","h","o","n">> @@
    <<".","j","s">> :> <<"j","a","v","a","s","c","r","i","p","t">> @@
    <<".","t","s">> :> <<"t","y","p","e","s","c","r","i","p","t">> @@
    <<".","j","a","v","a">> :> <<"j","a","v","a">> @@
    <<".","c">> :> <<"c">> @@
    <<".","h">> :> <<"c">> @@
    <<".","c","p","p">> :> <<"c","p","p">> @@
    <<".","c","s">> :> <<"c","s","h","a","r","p">> @@
    <<".","r","s">> :> <<"r","u","s","t">> @@
    <<".","r","b">> :> <<"r","u","b","y">> @@
    <<".","p","h","p">> :> <<"p","h","p">> @@
    <<".","s","w","i","f","t">> :> <<"s","w","i","f","t">> @@
    <<".","k","t">> :> <<"k","o","t","l","i","n">> @@
    <<".","k","t","s">> :> <<"k","o","t","l","i","n">> @@
    <<".","s","c","a","l","a">> :> <<"s","c","a","l","a">> @@
    <<".","p","l">> :> <<"p","e","r","l">> @@
    <<".","s","h">> :> <<"b","a","s","h">> @@
    <<".","h","t","m","l">> :> <<"h","t","m","l">> @@
    <<".","c","s","s">> :> <<"c","s","s">> @@
    <<".","s","c","s","s">> :> <<"s","c","s","s">> @@
    <<".","l","e","s","s">> :> <<"l","e","s","s">> @@
    <<".","j","s","o","n">> :> <<"j","s","o","n">> @@
    <<".","y","a","m","l">> :> <<"y","a","m","l">> @@
    <<".","y","m","l">> :> <<"y","a","m","l">> @@
    <<".","x","m","l">> :> <<"x","m","l">> @@
    <<".","t","o","m","l">> :> <<"t","o","m","l">> @@
    <<".","i","n","i">> :> <<"i","n","i">> @@
    <<".","e","n","v">> :> <<"b","a","s","h">> @@
    <<".","m","d">> :> <<"m","a","r","k","d","o","w","n">> @@
    <<".","t","x","t">> :> <<"t","e","x","t">> @@
    <<".","r","s","t">> :> <<"r","s","t">> @@
    <<".","s","q","l">> :> <<"s","q","l">>

\* languageExtMap of v3
languageExtMapV3 ==
    <<".","g","o">> :> <<"g","o">> @@
    <<".","p","y">> :> <<"p","y","t","h","o","n">> @@
    <<".","j","s">> :> <<"j","a","v","a","s","c","r","i","p","t">> @@
    <<".","t","s">> :> <<"t","y","p","e","s","c","r","i","p","t">> @@
    <<".","t","s","x">> :> <<"t","s","x">> @@
    <<".","j","a","v","a">> :> <<"j","a","v","a">> @@
    <<".","c">> :> <<"c">> @@
    <<".","h">> :> <<"c">> @@
    <<".","c","p","p">> :> <<"c","p","p">> @@
    <<".","c","s">> :> <<"c","s","h","a","r","p">> @@
    <<".","r","s">> :> <<"r","u","s","t">> @@
    <<".","r","b">> :> <<"r","u","b","y">> @@
    <<".","p","h","p">> :> <<"p","h","p">> @@
    <<".","s","w","i","f","t">> :> <<"s","w","i","f","t">> @@
    <<".","k","t">> :> <<"k","o","t","l","i","n">> @@
    <<".","k","t","s">> :> <<"k","o","t","l","i","n">> @@
    <<".","s","c","a","l","a">> :> <<"s","c","a","l","a">> @@
    <<".","p","l">> :> <<"p","e","r","l">> @@
    <<".","s","h">> :> <<"b","a","s","h">> @@
    <<".","h","t","m","l">> :> <<"h","t","m","l">> @@
    <<".","c","s","s">> :> <<"c","s","s">> @@
    <<".","s","c","s","s">> :> <<"s","c","s","s">> @@
    <<".","l","e","s","s">> :> <<"l","e","s","s">> @@
    <<".","j","s","o","n">> :> <<"j","s","o","n">> @@
    <<".","y","a","m","l">> :> <<"y","a","m","l">> @@
    <<".","y","m","l">> :> <<"y","a","m","l">> @@
    <<".","x","m","l">> :> <<"x","m","l">> @@
    <<".","t","o","m","l">> :> <<"t","o","m","l">> @@
    <<".","i","n","i">> :> <<"i","n","i">> @@
    <<".","m","d">> :> <<"m","a","r","k","d","o","w","n">> @@
    <<".","t","x","t">> :> <<"t","e","x","t">> @@
    <<".","r","s","t">> :> <<"r","s","t">> @@
    <<".","s","q","l">> :> <<"s","q","l">>

\* the keys -x consults: "_, isLang := languageExtMap[fileExt]"
languageExtKeys == DOMAIN languageExtMapV3

\* IsVcsDirName with node_modules forgotten
IsVcsDirNameNoNodeModules(name) ==
    \/ name = <<".","g","i","t">>
    \/ name = <<".","h","g">>
    \/ name = <<".","s","v","n">>

\* directory names pruned unconditionally
IsVcsDirName(name) ==
    \/ name = <<".","g","i","t">>
    \/ name = <<".","h","g">>
    \/ name = <<".","s","v","n">>
    \/ name = <<"n","o","d","e","_","m","o","d","u","l","e","s">>

(***************************************************************************)
(* The directory tree the walk runs over.  Paths are relative to the root, *)
(* as filepath.Rel returns them; the root itself is ".".                   *)
(***************************************************************************)
Root == <<".">>
pReadme == <<"R","e","a","d","m","e",".","M","D">>
pAGo == <<"a",".","g","o">>
pBBin == <<"b",".","b","i","n">>
pMk == <<"m","k">>
pLn == <<"l","n">>
pNodeModules == <<"n","o","d","e","_","m","o","d","u","l","e","s">>
pNodeX == <<"n","o","d","e","_","m","o","d","u","l","e","s","/","x",".","j","s">>
pSub == <<"s","u","b">>
pSubReadme == <<"s","u","b","/","R","E","A","D","M","E",".","m","d">>
pSubGo == <<"s","u","b",".","g","o">>

Dirs == {Root, pNodeModules, pSub}
RegularFiles == {pReadme, pAGo, pBBin, pMk, pNodeX, pSubReadme, pSubGo}
Symlinks == {pLn}
Entries == Dirs \cup RegularFiles \cup Symlinks

\* the directory an entry lies in
ParentOf(p) == IF LastSep(p) = 0 THEN Root ELSE SubSeq(p, 1, LastSep(p) - 1)
ChildrenOf(d) == {p \in Entries \ {Root} : ParentOf(p) = d}

\* p lies at or beneath directory d
RECURSIVE IsUnder(_, _)
IsUnder(p, d) ==
    IF p = d THEN TRUE
    ELSE IF p = Root THEN FALSE
    ELSE IsUnder(ParentOf(p), d)

\* os.ReadDir: the entries of a directory sorted by file name
RECURSIVE SortByName(_)
SortByName(S) ==
    IF S = {} THEN <<>>
    ELSE LET m == CHOOSE x \in S : \A y \in S \ {x} : StrLess(Base(x), Base(y))
         IN <<m>> \o SortByName(S \ {m})
ReadDir(d) == SortByName(ChildrenOf(d))

(***************************************************************************)
(* Configurations and file-system attributes the model ranges over.        *)
(***************************************************************************)
NoIgnoreFile == <<"no ignore file">>

IncludeSets == { <<>>,
                 << <<"*",".","b","i","n">>,
                    <<"n","o","d","e","_","m","o","d","u","l","e","s","/","*">> >> }
ExcludeSets == { <<>>, << <<"s","u","b","*">> >> }
IgnoreFiles == { NoIgnoreFile,
                 << <<"*",".","g","o">>, <<"!","a",".","g","o">>, <<"s","u","b">>,
                    <<"n","o","d","e","_","m","o","d","u","l","e","s">> >> }
ExcludeExtSets == { <<>>, << <<"B","I","N">> >> }

\* maxSizeBytes := int64(*sizeLimitKB) * 1024 (the limits of the model are far
\* below the values at which the int64 product wraps)
MaxSizeBytes(kb) == kb * 1024

\* size: what d.Info().Size() reports; rsize: the number of bytes os.ReadFile
\* returns (it differs from size when the file changes in between);
\* err: the system call that fails on the entry
Normal == [size |-> 1, rsize |-> 1, err |-> "none"]

OddFileAttrs(kb) ==
    ({[size |-> s, rsize |-> s, err |-> "none"] :
         s \in {0, 1, MaxSizeBytes(kb), MaxSizeBytes(kb) + 1}}
     \cup {[size |-> 1, rsize |-> 1, err |-> "stat"],
           [size |-> 1, rsize |-> 1, err |-> "read"],
           [size |-> 1, rsize |-> 0, err |-> "none"],
           [size |-> 1, rsize |-> MaxSizeBytes(kb) + 1, err |-> "none"]})
    \ {Normal}

OddDirAttrs(d) ==
    {[size |-> 1, rsize |-> 1, err |-> "readdir"]}
    \cup (IF d = Root THEN {[size |-> 1, rsize |-> 1, err |-> "lstat"]} ELSE {})

\* the entries whose attributes vary (node_modules/x.js and the symlink stay Normal)
Varying == (RegularFiles \ {pNodeX}) \cup Dirs

OddAttrs(e, kb) == IF e \in Dirs THEN OddDirAttrs(e) ELSE OddFileAttrs(kb)

AllOddAttrs(kb) == OddFileAttrs(kb) \cup OddDirAttrs(Root)

\* every tree in which at most MaxOdd entries are not Normal
FileSystems(kb) ==
    UNION { { [e \in Entries |-> IF e \in S THEN g[e] ELSE Normal] :
                g \in {h \in [S -> AllOddAttrs(kb)] : \A e \in S : h[e] \in OddAttrs(e, kb)} } :
            S \in {T \in SUBSET Varying : Cardinality(T) <= MaxOdd} }

(***************************************************************************)
(* The callback's filters.                                                 *)
(***************************************************************************)
maxSizeBytes == MaxSizeBytes(sizeLimitKB)

\* IsTooLarge with >= for >
IsTooLargeInclusive(size) == size >= maxSizeBytes

\* info.Size() > maxSizeBytes
IsTooLarge(size) == size > maxSizeBytes

\* IsEmpty with the check left out
IsEmptyNever(size) == FALSE

\* info.Size() == 0
IsEmpty(size) == size = 0

\* IsIncluded with the include patterns added to the default set, not replacing it
IsIncludedUnion(relPath) ==
    \/ MatchesAny(includes, relPath)
    \/ ToLower(Ext(relPath)) \in defaultExtensions

\* isIncluded of v1 and v2
IsIncluded(relPath) ==
    IF Len(includes) > 0
    THEN MatchesAny(includes, relPath)
    ELSE ToLower(Ext(relPath)) \in defaultExtensions

\* v3: excludedExtsMap, built from the -xe values
NormExt(ext) == IF HasPrefix(ToLower(ext), <<".">>) THEN ToLower(ext)
                ELSE <<".">> \o ToLower(ext)
excludedExtsMap == {NormExt(excludeExts[i]) : i \in 1..Len(excludeExts)}

\* v3: one line of the ignore file as a rule
IgnoreRule(line) ==
    IF HasPrefix(line, <<"!">>) THEN [negate |-> TRUE, pattern |-> Tail(line)]
    ELSE [negate |-> FALSE, pattern |-> line]

\* a pattern without a slash matches a path when it matches one whole element
\* of it, at any depth (so it also matches everything beneath a matching directory)
RulePatternMatches(pattern, relPath) ==
    LET bounds == {0} \cup SepPositions(relPath) \cup {Len(relPath) + 1}
    IN \E i \in bounds, j \in bounds :
          /\ i < j
          /\ \A k \in bounds : ~(i < k /\ k < j)
          /\ Match(pattern, SubSeq(relPath, i + 1, j - 1))

\* ignorer.MatchesPath: the rules in file order, the last matching rule decides
RECURSIVE MatchesPathFrom(_, _, _)
MatchesPathFrom(lines, relPath, matched) ==
    IF lines = <<>> THEN matched
    ELSE LET r == IgnoreRule(Head(lines))
             hit == RulePatternMatches(r.pattern, relPath)
         IN MatchesPathFrom(Tail(lines), relPath,
                            IF ~hit THEN matched
                            ELSE IF ~r.negate THEN TRUE
                            ELSE FALSE)

\* ignorer != nil && ignorer.MatchesPath(relPath)
IgnorerMatches(relPath) ==
    ignoreLines # NoIgnoreFile /\ MatchesPathFrom(ignoreLines, relPath, FALSE)

(***************************************************************************)
(* The WalkDir callback.  Its result: what it returns to WalkDir, what it  *)
(* appends to files and skippedFiles, and which system calls it makes.     *)
(***************************************************************************)
Msg(path, reason) == [path |-> path, reason |-> reason, detail |-> <<>>]
MsgTooLarge(path, size) ==
    [path |-> path, reason |-> "too large", detail |-> <<size \div 1024, sizeLimitKB>>]

Result(ret, fileSeq, msgSeq, stat, read) ==
    [ret |-> ret, files |-> fileSeq, msgs |-> msgSeq, stat |-> stat, read |-> read]
Quiet(ret) == Result(ret, <<>>, <<>>, FALSE, FALSE)
Skip(m, stat, read) == Result("nil", <<>>, <<m>>, stat, read)
Accept(relPath) ==
    Result("nil", <<[path |-> ToSlash(relPath), content |-> fs[relPath].rsize]>>, <<>>,
           TRUE, TRUE)

\* DirCallbackGlob with the exclude patterns applied to files only
DirCallbackGlobNoExclude(relPath) ==
    IF IsVcsDirName(Base(relPath)) THEN Quiet("SkipDir")
    ELSE Quiet("nil")

\* v1 and v2, d.IsDir() branch
DirCallbackGlob(relPath) ==
    IF IsVcsDirName(Base(relPath)) THEN Quiet("SkipDir")
    ELSE IF MatchesAny(excludes, relPath) THEN Quiet("SkipDir")
    ELSE Quiet("nil")

\* v3, for a directory
DirCallbackIgnore(relPath) ==
    IF relPath = Root THEN Quiet("nil")
    ELSE IF IsVcsDirName(Base(relPath)) THEN Quiet("SkipDir")
    ELSE IF IgnorerMatches(relPath)
         THEN Result("SkipDir", <<>>,
                     <<Msg(relPath \o <<"/">>, "excluded by ignore file")>>, FALSE, FALSE)
    ELSE Quiet("nil")

\* v1, for a file: every rejection is silent
FileCallbackV1(relPath) ==
    LET a == fs[relPath] IN
    IF relPath \notin RegularFiles THEN Quiet("nil")
    ELSE IF MatchesAny(excludes, relPath) THEN Quiet("nil")
    ELSE IF a.err = "stat" \/ IsTooLarge(a.size) \/ IsEmpty(a.size)
         THEN Result("nil", <<>>, <<>>, TRUE, FALSE)
    ELSE IF IsIncluded(relPath)
         THEN IF a.err = "read" THEN Result("nil", <<>>, <<>>, TRUE, TRUE)
              ELSE Accept(relPath)
    ELSE Result("nil", <<>>, <<>>, TRUE, FALSE)

\* v2, for a file
FileCallbackV2(relPath) ==
    LET a == fs[relPath] IN
    IF relPath \notin RegularFiles THEN Quiet("nil")
    ELSE IF MatchesAny(excludes, relPath)
         THEN Skip(Msg(relPath, "excluded by pattern"), FALSE, FALSE)
    ELSE IF a.err = "stat" THEN Skip(Msg(relPath, "error getting info"), TRUE, FALSE)
    ELSE IF IsTooLarge(a.size) THEN Skip(MsgTooLarge(relPath, a.size), TRUE, FALSE)
    ELSE IF IsEmpty(a.size) THEN Skip(Msg(relPath, "empty"), TRUE, FALSE)
    ELSE IF IsIncluded(relPath)
         THEN IF a.err = "read" THEN Skip(Msg(relPath, "unreadable"), TRUE, TRUE)
              ELSE Accept(relPath)
    ELSE IF Len(includes) = 0
         THEN Skip(Msg(relPath, "unsupported extension"), TRUE, FALSE)
    ELSE Result("nil", <<>>, <<>>, TRUE, FALSE)

\* FileCallbackV3 with the ignore check moved behind the extension and size checks
FileCallbackV3IgnoreLast(relPath) ==
    LET a == fs[relPath]
        fileExt == ToLower(Ext(relPath))
    IN
    IF relPath \notin RegularFiles THEN Quiet("nil")
    ELSE IF fileExt \in excludedExtsMap
         THEN Skip(Msg(relPath, "extension excluded by -xe"), FALSE, FALSE)
    ELSE IF langOnly /\ fileExt \notin languageExtKeys
         THEN Skip(Msg(relPath, "not a recognized source file with -x"), FALSE, FALSE)
    ELSE IF a.err = "stat" THEN Skip(Msg(relPath, "error getting info"), TRUE, FALSE)
    ELSE IF IsTooLarge(a.size) THEN Skip(MsgTooLarge(relPath, a.size), TRUE, FALSE)
    ELSE IF IsEmpty(a.size) THEN Skip(Msg(relPath, "empty"), TRUE, FALSE)
    ELSE IF IgnorerMatches(relPath)
         THEN Skip(Msg(relPath, "excluded by ignore file"), TRUE, FALSE)
    ELSE IF a.err = "read" THEN Skip(Msg(relPath, "unreadable"), TRUE, TRUE)
    ELSE Accept(relPath)

\* v3, for a file
FileCallbackV3(relPath) ==
    LET a == fs[relPath]
        fileExt == ToLower(Ext(relPath))
    IN
    IF IgnorerMatches(relPath)
         THEN Skip(Msg(relPath, "excluded by ignore file"), FALSE, FALSE)
    ELSE IF relPath \notin RegularFiles THEN Quiet("nil")
    ELSE IF fileExt \in excludedExtsMap
         THEN Skip(Msg(relPath, "extension excluded by -xe"), FALSE, FALSE)
    ELSE IF langOnly /\ fileExt \notin languageExtKeys
         THEN Skip(Msg(relPath, "not a recognized source file with -x"), FALSE, FALSE)
    ELSE IF a.err = "stat" THEN Skip(Msg(relPath, "error getting info"), TRUE, FALSE)
    ELSE IF IsTooLarge(a.size) THEN Skip(MsgTooLarge(relPath, a.size), TRUE, FALSE)
    ELSE IF IsEmpty(a.size) THEN Skip(Msg(relPath, "empty"), TRUE, FALSE)
    ELSE IF a.err = "read" THEN Skip(Msg(relPath, "unreadable"), TRUE, TRUE)
    ELSE Accept(relPath)

\* the callback with err == nil
Callback(relPath) ==
    IF relPath \in Dirs
    THEN IF variant = "v3" THEN DirCallbackIgnore(relPath) ELSE DirCallbackGlob(relPath)
    ELSE CASE variant = "v1" -> FileCallbackV1(relPath)
           [] variant = "v2" -> FileCallbackV2(relPath)
           [] variant = "v3" -> FileCallbackV3(relPath)

\* the callback with err != nil: "return err"
CallbackOnError == "err"

(***************************************************************************)
(* Sorting.                                                                *)
(***************************************************************************)
readmeName == <<"r","e","a","d","m","e",".","m","d">>
IsReadme(path) == EqualFold(Base(path), readmeName)

\* Less with the readme name compared case-sensitively
LessCaseSensitive(fi, fj) ==
    IF (Base(fi.path) = readmeName) # (Base(fj.path) = readmeName)
    THEN Base(fi.path) = readmeName
    ELSE StrLess(fi.path, fj.path)

\* Less that only puts the readmes first and leaves the paths uncompared
LessReadmeOnly(fi, fj) == IsReadme(fi.path) /\ ~IsReadme(fj.path)

\* the less function handed to sort.Slice
Less(fi, fj) ==
    IF IsReadme(fi.path) # IsReadme(fj.path) THEN IsReadme(fi.path)
    ELSE StrLess(fi.path, fj.path)

RECURSIVE InsertFile(_, _)
InsertFile(f, sorted) ==
    IF sorted = <<>> THEN <<f>>
    ELSE IF Less(f, Head(sorted)) THEN <<f>> \o sorted
    ELSE <<Head(sorted)>> \o InsertFile(f, Tail(sorted))

\* sort.Slice(files, less)
RECURSIVE SortFiles(_)
SortFiles(fileSeq) ==
    IF fileSeq = <<>> THEN <<>>
    ELSE InsertFile(Head(fileSeq), SortFiles(Tail(fileSeq)))

\* a skip message as printed is "<path> (<reason>)"
MsgKey(m) == m.path \o <<" ", "(">>

RECURSIVE InsertMsg(_, _)
InsertMsg(m, sorted) ==
    IF sorted = <<>> THEN <<m>>
    ELSE IF StrLess(MsgKey(m), MsgKey(Head(sorted))) THEN <<m>> \o sorted
    ELSE <<Head(sorted)>> \o InsertMsg(m, Tail(sorted))

\* sort.Strings(skippedFiles)
RECURSIVE SortStrings(_)
SortStrings(msgs) ==
    IF msgs = <<>> THEN <<>>
    ELSE InsertMsg(Head(msgs), SortStrings(Tail(msgs)))

(***************************************************************************)
(* main(): the walk.                                                       *)
(***************************************************************************)
SerIdle ==
    /\ serVariant = "none"
    /\ serFormat = "none"
    /\ serPath = <<>>
    /\ serContent = <<>>
    /\ serOut = <<>>

\* nothing chosen, nothing written
OutIdle ==
    /\ outFormat = "none"
    /\ prependPath = <<>>
    /\ stdout = <<>>
    /\ stderr = <<>>

Init ==
    /\ variant \in {"v1", "v2", "v3"}
    /\ includes \in (IF variant = "v3" THEN {<<>>} ELSE IncludeSets)
    /\ excludes \in (IF variant = "v3" THEN {<<>>} ELSE ExcludeSets)
    /\ ignoreLines \in (IF variant = "v3" THEN IgnoreFiles ELSE {NoIgnoreFile})
    /\ excludeExts \in (IF variant = "v3" THEN ExcludeExtSets ELSE {<<>>})
    /\ langOnly \in (IF variant = "v3" THEN BOOLEAN ELSE {FALSE})
    /\ sizeLimitKB \in 0..MaxSizeLimitKB
    /\ fs \in FileSystems(sizeLimitKB)
    /\ pc = "start"
    /\ todo = <<>>
    /\ files = <<>>
    /\ skippedFiles = <<>>
    /\ statted = {}
    /\ reads = {}
    /\ SerIdle
    /\ OutIdle

config == <<variant, includes, excludes, ignoreLines, excludeExts, langOnly, sizeLimitKB, fs>>

\* filepath.WalkDir: os.Lstat(root); on failure the callback gets the error,
\* returns it, and main() ends in log.Fatalf
WalkRoot ==
    /\ pc = "start"
    /\ IF fs[Root].err = "lstat"
       THEN /\ CallbackOnError = "err"
            /\ pc' = "fatal"
            /\ todo' = <<>>
       ELSE /\ pc' = "walk"
            /\ todo' = <<Root>>
    /\ UNCHANGED <<config, files, skippedFiles, statted, reads, serVars, outVars>>

\* walkDir on a directory: the callback, then ReadDir; when ReadDir fails the
\* callback is called again with the error and returns it, which ends the walk
VisitDir ==
    /\ pc = "walk"
    /\ todo # <<>>
    /\ Head(todo) \in Dirs
    /\ LET d == Head(todo)
           r == Callback(d)
       IN /\ skippedFiles' = skippedFiles \o r.msgs
          /\ IF r.ret = "SkipDir"
             THEN /\ todo' = Tail(todo)
                  /\ pc' = "walk"
             ELSE IF fs[d].err = "readdir"
             THEN /\ CallbackOnError = "err"
                  /\ todo' = <<>>
                  /\ pc' = "fatal"
             ELSE /\ todo' = ReadDir(d) \o Tail(todo)
                  /\ pc' = "walk"
    /\ UNCHANGED <<config, files, statted, reads, serVars, outVars>>

\* walkDir on a non-directory: the callback
VisitFile ==
    /\ pc = "walk"
    /\ todo # <<>>
    /\ Head(todo) \notin Dirs
    /\ LET p == Head(todo)
           r == Callback(p)
       IN /\ files' = files \o r.files
          /\ skippedFiles' = skippedFiles \o r.msgs
          /\ statted' = IF r.stat THEN statted \cup {p} ELSE statted
          /\ reads' = IF r.read THEN reads \cup {p} ELSE reads
          /\ todo' = Tail(todo)
    /\ UNCHANGED <<config, pc, serVars, outVars>>

\* WalkDir returned nil: the skip report is sorted, files are sorted
Finish ==
    /\ pc = "walk"
    /\ todo = <<>>
    /\ skippedFiles' = SortStrings(skippedFiles)
    /\ files' = SortFiles(files)
    /\ pc' = "sorted"
    /\ UNCHANGED <<config, todo, statted, reads, serVars, outVars>>


(***************************************************************************)
(* Serialization.  A content is a sequence of characters; "NUL" stands for *)
(* the byte 0x00, "U+FFFD" for the Unicode replacement character and "BQ"  *)
(* for the backquote.                                                      *)
(***************************************************************************)
\* getLanguageHint
GetLanguageHint(v, path) ==
    LET ext == ToLower(Ext(path))
        m == IF v = "v3" THEN languageExtMapV3 ELSE languageExtMap
    IN IF ext \in DOMAIN m THEN m[ext] ELSE <<>>

\* ClosingNewline that never adds the newline
ClosingNewlineNever(content) == <<>>

\* v2, v3: "if len(file.content) > 0 && file.content[len(file.content)-1] != '\n'
\* { b.WriteString("\n") }"
ClosingNewline(content) ==
    IF Len(content) > 0 /\ content[Len(content)] # "\n" THEN <<"\n">> ELSE <<>>

\* one iteration of buildMarkdown's loop
MarkdownFile(v, path, outputPath, content) ==
    <<"BQ","BQ","BQ">> \o GetLanguageHint(v, path) \o <<" ","p","a","t","h","=">> \o outputPath \o <<"\n">>
    \o content
    \o (IF v = "v1" THEN <<"\n">> ELSE ClosingNewline(content))
    \o <<"BQ","BQ","BQ","\n","\n">>

\* one iteration of buildStandardText's loop
TextSeparator ==
    <<"=","=","=","=","=","=","=","=","=","=","=","=","=","=","=","=","=","=","=","=","=","=","=","=","=","=","=","=","=","=","=","=","=","=","=","=","=","=","=","=","=","=","=","=","=","=","=","=","\n">>
StandardTextFile(outputPath, content) ==
    TextSeparator \o <<"F","I","L","E",":"," ">> \o outputPath \o <<"\n">> \o TextSeparator
    \o content \o <<"\n", "\n">>

\* characters outside the XML character range (xml.isInCharacterRange)
InvalidXMLChars == {"NUL"}

\* xml.EscapeText on one character
EscapeChar(c) ==
    CASE c = "\"" -> <<"&","#","3","4",";">>
      [] c = "'" -> <<"&","#","3","9",";">>
      [] c = "&" -> <<"&","a","m","p",";">>
      [] c = "<" -> <<"&","l","t",";">>
      [] c = ">" -> <<"&","g","t",";">>
      [] c = "\t" -> <<"&","#","x","9",";">>
      [] c = "\n" -> <<"&","#","x","A",";">>
      [] c = "\r" -> <<"&","#","x","D",";">>
      [] OTHER -> IF c \in InvalidXMLChars THEN <<"U+FFFD">> ELSE <<c>>

\* xml.EscapeText
RECURSIVE EscapeText(_)
EscapeText(str) ==
    IF str = <<>> THEN <<>> ELSE EscapeChar(Head(str)) \o EscapeText(Tail(str))

\* one iteration of buildClaudeXML's loop
XMLDocOpen == <<" "," ","<","d","o","c","u","m","e","n","t"," ","p","a","t","h","=","\"">>
XMLContentOpen == <<"\"",">","\n"," "," "," "," ","<","c","o","n","t","e","n","t",">">>
XMLDocClose == <<"<","/","c","o","n","t","e","n","t",">","\n"," "," ","<","/","d","o","c","u","m","e","n","t",">","\n">>
ClaudeXMLFile(outputPath, content) ==
    XMLDocOpen \o EscapeText(outputPath) \o XMLContentOpen
    \o EscapeText(content) \o XMLDocClose

\* the whole output of buildClaudeXML for the given documents
XMLOpen == <<"<","d","o","c","u","m","e","n","t","s",">","\n">>
XMLClose == <<"<","/","d","o","c","u","m","e","n","t","s",">","\n">>
ClaudeXML(docs) == XMLOpen \o docs \o XMLClose

(***************************************************************************)
(* main(): the output.  files holds each content as its length; the bytes  *)
(* os.ReadFile returned are a run of "a" (written as one token that names  *)
(* its length) followed by the file's last byte.                           *)
(***************************************************************************)
\* the last byte of each file of the tree
LastByte(path) ==
    CASE path = pAGo -> "\n"
      [] path = pSubGo -> "&"
      [] path = pSubReadme -> "<"
      [] path = pBBin -> "NUL"
      [] OTHER -> "a"

\* content, err := os.ReadFile(path): the n bytes read
ContentBytes(path, n) ==
    IF n = 0 THEN <<>>
    ELSE IF n = 1 THEN <<LastByte(path)>>
    ELSE <<"a*" \o ToString(n - 1), LastByte(path)>>

\* strings.Split(p, "/")
RECURSIVE SplitFrom(_, _, _)
SplitFrom(p, cur, acc) ==
    IF p = <<>> THEN Append(acc, cur)
    ELSE IF Head(p) = "/" THEN SplitFrom(Tail(p), <<>>, Append(acc, cur))
    ELSE SplitFrom(Tail(p), Append(cur, Head(p)), acc)

\* filepath.Clean's pass over the path elements: empty elements and "." are
\* dropped, ".." removes the element before it, or stays when there is none
\* (and is dropped at the root)
RECURSIVE CleanElements(_, _, _)
CleanElements(elems, out, rooted) ==
    IF elems = <<>> THEN out
    ELSE LET e == Head(elems)
             rest == Tail(elems)
         IN IF e = <<>> \/ e = <<".">> THEN CleanElements(rest, out, rooted)
            ELSE IF e = <<".", ".">>
                 THEN IF out # <<>> /\ out[Len(out)] # <<".", ".">>
                           THEN CleanElements(rest, SubSeq(out, 1, Len(out) - 1), rooted)
                      ELSE IF rooted THEN CleanElements(rest, out, rooted)
                      ELSE CleanElements(rest, Append(out, e), rooted)
            ELSE CleanElements(rest, Append(out, e), rooted)

\* strings.Join(elems, "/")
RECURSIVE JoinElements(_)
JoinElements(elems) ==
    IF elems = <<>> THEN <<>>
    ELSE IF Len(elems) = 1 THEN elems[1]
    ELSE elems[1] \o <<"/">> \o JoinElements(Tail(elems))

\* filepath.Clean
Clean(p) ==
    IF p = <<>> THEN <<".">>
    ELSE LET rooted == p[1] = "/"
             out == (IF rooted THEN <<"/">> ELSE <<>>)
                    \o JoinElements(CleanElements(SplitFrom(p, <<>>, <<>>), <<>>, rooted))
         IN IF out = <<>> THEN <<".">> ELSE out

\* filepath.Join of two elements: the elements from the first non-empty one
\* on, joined with the separator and cleaned
Join(a, b) ==
    IF a # <<>> THEN Clean(a \o <<"/">> \o b)
    ELSE IF b # <<>> THEN Clean(b)
    ELSE <<>>

\* applyPrepend that concatenates instead of joining
applyPrependConcat(path, prepend) == prepend \o path

\* v2, v3: applyPrepend
applyPrepend(path, prepend) ==
    IF prepend = <<>> THEN path
    ELSE ToSlash(Join(prepend, path))

\* buildMarkdown: v1 writes file.path, v2 and v3 applyPrepend(file.path, prependPath);
\* the language hint is taken from file.path in all three
RECURSIVE buildMarkdown(_, _, _)
buildMarkdown(v, fileSeq, prepend) ==
    IF fileSeq = <<>> THEN <<>>
    ELSE LET file == Head(fileSeq)
             outputPath == IF v = "v1" THEN file.path ELSE applyPrepend(file.path, prepend)
         IN MarkdownFile(v, file.path, outputPath, ContentBytes(file.path, file.content))
            \o buildMarkdown(v, Tail(fileSeq), prepend)

\* buildStandardText
RECURSIVE buildStandardText(_, _, _)
buildStandardText(v, fileSeq, prepend) ==
    IF fileSeq = <<>> THEN <<>>
    ELSE LET file == Head(fileSeq)
             outputPath == IF v = "v1" THEN file.path ELSE applyPrepend(file.path, prepend)
         IN StandardTextFile(outputPath, ContentBytes(file.path, file.content))
            \o buildStandardText(v, Tail(fileSeq), prepend)

\* buildClaudeXML: the loop, and the whole function
RECURSIVE ClaudeXMLDocuments(_, _, _)
ClaudeXMLDocuments(v, fileSeq, prepend) ==
    IF fileSeq = <<>> THEN <<>>
    ELSE LET file == Head(fileSeq)
             outputPath == IF v = "v1" THEN file.path ELSE applyPrepend(file.path, prepend)
         IN ClaudeXMLFile(outputPath, ContentBytes(file.path, file.content))
            \o ClaudeXMLDocuments(v, Tail(fileSeq), prepend)
buildClaudeXML(v, fileSeq, prepend) == ClaudeXML(ClaudeXMLDocuments(v, fileSeq, prepend))

\* "switch { case *useClaudeXML: ... case *useMarkdown: ... default: ... }"
Format(useClaudeXML, useMarkdown) ==
    IF useClaudeXML THEN "xml"
    ELSE IF useMarkdown THEN "markdown"
    ELSE "text"
Build(v, fmt, fileSeq, prepend) ==
    CASE fmt = "xml" -> buildClaudeXML(v, fileSeq, prepend)
      [] fmt = "markdown" -> buildMarkdown(v, fileSeq, prepend)
      [] OTHER -> buildStandardText(v, fileSeq, prepend)

\* the empty-result check that is never taken
NoFilesMatchedNever(fileSeq) == FALSE

\* "if len(files) == 0"
NoFilesMatched(fileSeq) == Len(fileSeq) = 0

\* the log lines main() ends with; v1 logs nothing after a non-empty output
LogNoFiles == [msg |-> "No files matched. No output generated.", n |-> 0]
LogIngested(v, fileSeq) ==
    IF v = "v1" THEN <<>>
    ELSE <<[msg |-> "Ingested %d files.", n |-> Len(fileSeq)]>>

\* the values of -p the model runs with; v1 has no -p
PrependPaths(v) ==
    IF v = "v1" THEN {<<>>}
    ELSE {<<>>, <<".", "/", "q", "/">>}

\* after the sort: the empty-result check, the switch on the format flags,
\* fmt.Print and the closing log line.  The flags -c, -m and -p are read
\* nowhere before this point, so their values are drawn here.
Emit ==
    /\ pc = "sorted"
    /\ \E useClaudeXML \in BOOLEAN, useMarkdown \in BOOLEAN, p \in PrependPaths(variant) :
          /\ outFormat' = Format(useClaudeXML, useMarkdown)
          /\ prependPath' = p
          /\ IF NoFilesMatched(files)
             THEN /\ stdout' = <<>>
                  /\ stderr' = <<LogNoFiles>>
             ELSE /\ stdout' = Build(variant, Format(useClaudeXML, useMarkdown), files, p)
                  /\ stderr' = LogIngested(variant, files)
    /\ pc' = "done"
    /\ UNCHANGED <<config, todo, files, skippedFiles, statted, reads, serVars>>

\* the process's exit status: 0 when main() returned, 1 after log.Fatalf,
\* -1 while it runs
ExitStatus ==
    CASE pc = "done" -> 0
      [] pc = "fatal" -> 1
      [] OTHER -> -1

Next == WalkRoot \/ VisitDir \/ VisitFile \/ Finish \/ Emit

Spec == Init /\ [][Next]_vars

\* the contents and paths the serializers are run on
Alphabet == {"a", "\n", "BQ", "&", "<", "NUL", "U+FFFD"}
Contents == UNION {[1..n -> Alphabet] : n \in 0..MaxLen}
SerPaths == {pAGo, pMk}

SerInit ==
    /\ variant = "none"
    /\ includes = <<>>
    /\ excludes = <<>>
    /\ ignoreLines = NoIgnoreFile
    /\ excludeExts = <<>>
    /\ langOnly = FALSE
    /\ sizeLimitKB = 0
    /\ fs = [e \in Entries |-> Normal]
    /\ pc = "serialize"
    /\ todo = <<>>
    /\ files = <<>>
    /\ skippedFiles = <<>>
    /\ statted = {}
    /\ reads = {}
    /\ serVariant \in {"v1", "v2", "v3"}
    /\ serFormat = "none"
    /\ serPath \in SerPaths
    /\ serContent \in Contents
    /\ serOut = <<>>
    /\ OutIdle

\* case *useMarkdown: buildMarkdown on the one file
BuildMarkdown ==
    /\ pc = "serialize"
    /\ serFormat = "none"
    /\ serFormat' = "markdown"
    /\ serOut' = MarkdownFile(serVariant, serPath, serPath, serContent)
    /\ UNCHANGED <<walkVars, outVars, serVariant, serPath, serContent>>

\* case *useClaudeXML: buildClaudeXML on the one file
BuildClaudeXML ==
    /\ pc = "serialize"
    /\ serFormat = "none"
    /\ serFormat' = "xml"
    /\ serOut' = ClaudeXML(ClaudeXMLFile(serPath, serContent))
    /\ UNCHANGED <<walkVars, outVars, serVariant, serPath, serContent>>

\* default: buildStandardText on the one file
BuildStandardText ==
    /\ pc = "serialize"
    /\ serFormat = "none"
    /\ serFormat' = "text"
    /\ serOut' = StandardTextFile(serPath, serContent)
    /\ UNCHANGED <<walkVars, outVars, serVariant, serPath, serContent>>

SerNext == BuildMarkdown \/ BuildClaudeXML \/ BuildStandardText

SpecSer == SerInit /\ [][SerNext]_vars

(***************************************************************************)
(* Vocabulary of the properties.                                           *)
(***************************************************************************)
AcceptedPaths == {files[i].path : i \in 1..Len(files)}
SkippedPaths == {skippedFiles[i].path : i \in 1..Len(skippedFiles)}
WalkDone == pc = "sorted"

\* the directories at or above each entry of the tree
DirsAbove == [p \in Entries |-> {d \in Dirs : IsUnder(p, d)}]

\* p lies in a subtree the callback answered SkipDir for
Pruned(p) == \E d \in DirsAbove[p] : Callback(d).ret = "SkipDir"

\* p lies at or beneath a directory with a version-control or dependency name
VcsDirNames == { <<".","g","i","t">>, <<".","h","g">>, <<".","s","v","n">>,
                 <<"n","o","d","e","_","m","o","d","u","l","e","s">> }
VcsDirs == {d \in Dirs : Base(d) \in VcsDirNames}
InVcsDir(p) == DirsAbove[p] \cap VcsDirs # {}

\* the name-based filters of the variant that runs
PassesNameFilters(p) ==
    IF variant = "v3"
    THEN /\ ~IgnorerMatches(p)
         /\ ToLower(Ext(p)) \notin excludedExtsMap
         /\ (langOnly => ToLower(Ext(p)) \in languageExtKeys)
    ELSE /\ ~MatchesAny(excludes, p)
         /\ IF Len(includes) > 0 THEN MatchesAny(includes, p)
            ELSE ToLower(Ext(p)) \in defaultExtensions

\* every check other than the include patterns / default extensions
PassesOtherChecks(p) ==
    /\ ~Pruned(p)
    /\ ~MatchesAny(excludes, p)
    /\ fs[p].err = "none"
    /\ fs[p].size > 0
    /\ fs[p].size <= maxSizeBytes

\* every check other than the size limit
PassesAllButSize(p) ==
    /\ ~Pruned(p)
    /\ PassesNameFilters(p)
    /\ fs[p].err = "none"

(***************************************************************************)
(* C1..C10                                                                 *)
(***************************************************************************)

\* C1: after the walk, every regular file outside the pruned subtrees is
\* accepted or has a skip record.
C1_NoSilentDrop ==
    WalkDone =>
        \A p \in RegularFiles :
            ~Pruned(p) => (ToSlash(p) \in AcceptedPaths \/ p \in SkippedPaths)

\* C2: the walk ends fatally only when the walk root itself cannot be accessed;
\* an error on any other entry never ends the run.
C2_OnlyRootFatal ==
    pc = "fatal" => fs[Root].err \in {"lstat", "readdir"}

\* C3: a file is stat'ed, and skipped as too large or empty, only after it has
\* passed every name-based filter.
C3_SizeCheckLast ==
    /\ \A p \in statted : PassesNameFilters(p)
    /\ \A i \in 1..Len(skippedFiles) :
          skippedFiles[i].reason \in {"too large", "empty"}
              => PassesNameFilters(skippedFiles[i].path)

\* C4: with include patterns supplied, a file that passes the other checks is
\* accepted if and only if its relative path matches an include pattern; the
\* default-extension set plays no role.
C4_IncludeReplacesDefaults ==
    (WalkDone /\ Len(includes) > 0) =>
        /\ \A p \in RegularFiles :
              PassesOtherChecks(p) =>
                  (ToSlash(p) \in AcceptedPaths <=> MatchesAny(includes, p))
        /\ \A p \in RegularFiles :
              ToSlash(p) \in AcceptedPaths => MatchesAny(includes, p)

\* C4 witness: a walk with include patterns ended; b.bin (extension not in the
\* default set, matches *.bin) is accepted and a.go (default extension, matches
\* no include pattern, passes the other checks) is not.
C4_Witness ==
    /\ WalkDone
    /\ Len(includes) > 0
    /\ PassesOtherChecks(pAGo)
    /\ ToLower(Ext(pAGo)) \in defaultExtensions
    /\ ~MatchesAny(includes, pAGo)
    /\ pAGo \notin AcceptedPaths
    /\ ToLower(Ext(pBBin)) \notin defaultExtensions
    /\ pBBin \in AcceptedPaths

\* C5: with no include patterns, every accepted file has its lower-cased
\* extension in the default-included set.
C5_DefaultExtensionsOnly ==
    Len(includes) = 0 =>
        \A i \in 1..Len(files) : ToLower(Ext(files[i].path)) \in defaultExtensions

C7_Original ==
    WalkDone =>
        \A p \in RegularFiles :
            PassesAllButSize(p) =>
                /\ (fs[p].size = maxSizeBytes => ToSlash(p) \in AcceptedPaths)
                /\ (fs[p].size = maxSizeBytes + 1 => ToSlash(p) \notin AcceptedPaths)

\* C7 amended: for every size limit of at least 1 KB, a file of exactly
\* limit*1024 bytes that passes the other filters is accepted, and one of
\* limit*1024+1 bytes is not; with a limit of 0 the file of exactly the limit
\* is a zero-byte file and is not accepted.
C7_SizeBoundary ==
    WalkDone =>
        \A p \in RegularFiles :
            PassesAllButSize(p) =>
                /\ (fs[p].size = maxSizeBytes /\ sizeLimitKB >= 1
                        => ToSlash(p) \in AcceptedPaths)
                /\ (fs[p].size = maxSizeBytes /\ sizeLimitKB = 0
                        => ToSlash(p) \notin AcceptedPaths)
                /\ (fs[p].size = maxSizeBytes + 1 => ToSlash(p) \notin AcceptedPaths)

\* C7 witness: a walk with a limit of at least 1 KB ended, in which a file of
\* exactly the limit passed the other filters and was accepted.
C7_Witness ==
    /\ WalkDone
    /\ sizeLimitKB >= 1
    /\ \E p \in RegularFiles :
          /\ PassesAllButSize(p)
          /\ fs[p].size = maxSizeBytes
          /\ ToSlash(p) \in AcceptedPaths

\* C8: no accepted file had zero bytes when it was size-checked.
C8_NoEmptyFile ==
    \A p \in RegularFiles :
        ToSlash(p) \in AcceptedPaths => fs[p].size > 0

\* C8 witness: the walk ended; a zero-byte file that passes every other check
\* was size-checked and is not among the accepted files.
C8_Witness ==
    /\ WalkDone
    /\ \E p \in RegularFiles :
          /\ fs[p].size = 0
          /\ PassesAllButSize(p)
          /\ p \in statted
          /\ ToSlash(p) \notin AcceptedPaths

\* C9: the sorted files are ordered by (is-readme descending, path ascending):
\* readme-named files precede all others, and within each group the paths are
\* strictly ascending in byte order; if any readme-named file is accepted, the
\* first file is readme-named.
C9_Ordering ==
    WalkDone =>
        /\ \A i, j \in 1..Len(files) :
              i < j =>
                  /\ (IsReadme(files[j].path) => IsReadme(files[i].path))
                  /\ (IsReadme(files[i].path) = IsReadme(files[j].path)
                         => StrLess(files[i].path, files[j].path))
        /\ ((\E i \in 1..Len(files) : IsReadme(files[i].path))
               => IsReadme(files[1].path))

\* C9 witness: the walk ended with a readme in a subdirectory and a top-level
\* readme whose name differs in case, both ahead of at least two other files.
C9_Witness ==
    /\ WalkDone
    /\ Len(files) >= 4
    /\ files[1].path = pReadme
    /\ files[2].path = pSubReadme
    /\ ~IsReadme(files[3].path)

\* the output of a serializer for one file, as the formats frame it
OutputOf(v, format, path, content) ==
    CASE format = "markdown" -> MarkdownFile(v, path, path, content)
      [] format = "xml" -> ClaudeXML(ClaudeXMLFile(path, content))
      [] format = "text" -> StandardTextFile(path, content)

\* reversing the Markdown framing: drop the opening fence line and the closing fence
MarkdownBody(out) ==
    LET nl == CHOOSE i \in 1..Len(out) :
                  out[i] = "\n" /\ \A j \in 1..(i - 1) : out[j] # "\n"
    IN SubSeq(out, nl + 1, Len(out) - 5)

\* reversing the XML framing: the character data of the content element
XMLBody(out, path) ==
    LET pre == Len(XMLOpen) + Len(XMLDocOpen) + Len(EscapeText(path)) + Len(XMLContentOpen)
        post == Len(XMLDocClose) + Len(XMLClose)
    IN SubSeq(out, pre + 1, Len(out) - post)

Entities ==
    { [text |-> EscapeChar(c), char |-> c] : c \in {"\"", "'", "&", "<", ">", "\t", "\n", "\r"} }

\* reversing xml.EscapeText: every character reference back to its character
RECURSIVE UnescapeText(_)
UnescapeText(str) ==
    IF str = <<>> THEN <<>>
    ELSE IF \E e \in Entities : HasPrefix(str, e.text)
         THEN LET e == CHOOSE e \in Entities : HasPrefix(str, e.text)
              IN <<e.char>> \o UnescapeText(SubSeq(str, Len(e.text) + 1, Len(str)))
    ELSE <<Head(str)>> \o UnescapeText(Tail(str))

\* C10 as stated: for Markdown and XML, two different contents never serialize
\* to the same block, so reversing the framing yields exactly the original bytes.
C10_Original ==
    serFormat \in {"markdown", "xml"} =>
        \A c \in Contents :
            OutputOf(serVariant, serFormat, serPath, c) = serOut => c = serContent

\* C10 amended: reversing the Markdown framing yields the content followed by
\* one newline in v1, and in v2 and v3 the content with a newline appended when it
\* is non-empty and does not end in one (so a content and the same content plus a
\* final newline share a block); reversing the XML escaping yields exactly the
\* content when it holds no invalid byte and no character outside the XML
\* character range (each of those is emitted as U+FFFD, so the content is lost).
C10_RoundTrip ==
    /\ (serFormat = "markdown" /\ serVariant = "v1")
           => MarkdownBody(serOut) = serContent \o <<"\n">>
    /\ (serFormat = "markdown" /\ serVariant \in {"v2", "v3"})
           => MarkdownBody(serOut) =
                 (IF serContent # <<>> /\ serContent[Len(serContent)] # "\n"
                  THEN serContent \o <<"\n">> ELSE serContent)
    /\ (serFormat = "xml" /\ \A i \in 1..Len(serContent) : serContent[i] \notin InvalidXMLChars)
           => UnescapeText(XMLBody(serOut, serPath)) = serContent
    /\ (serFormat = "xml" /\ \E i \in 1..Len(serContent) : serContent[i] \in InvalidXMLChars)
           => UnescapeText(XMLBody(serOut, serPath)) # serContent

\* C10 witness: v2's Markdown block of a content that holds a fence and does not
\* end in a newline.
C10_Witness ==
    /\ serFormat = "markdown"
    /\ serVariant = "v2"
    /\ serContent = <<"BQ", "\n", "a">>
    /\ MarkdownBody(serOut) = <<"BQ", "\n", "a", "\n">>

(***************************************************************************)
(* C11..C16                                                                *)
(***************************************************************************)

\* C11: no accepted file has a relative path that matches an exclude pattern, and
\* nothing beneath a directory whose relative path matches an exclude pattern is
\* stat'ed, read, accepted or recorded as skipped, whatever the include patterns
\* or the file's extension.
C11_ExcludesApply ==
    Len(excludes) > 0 =>
        /\ \A p \in RegularFiles :
              MatchesAny(excludes, p) => ToSlash(p) \notin AcceptedPaths
        /\ \A d \in Dirs :
              MatchesAny(excludes, d) =>
                  \A p \in Entries \ Dirs :
                      d \in DirsAbove[p] =>
                          /\ ToSlash(p) \notin AcceptedPaths
                          /\ p \notin SkippedPaths
                          /\ p \notin statted
                          /\ p \notin reads

C11_Witness ==
    /\ WalkDone
    /\ MatchesAny(excludes, pSubGo)
    /\ MatchesAny(excludes, pSub)
    /\ Len(includes) = 0
    /\ fs[pSubGo] = Normal /\ fs[pSubReadme] = Normal /\ sizeLimitKB >= 1
    /\ ToLower(Ext(pSubGo)) \in defaultExtensions
    /\ ToLower(Ext(pSubReadme)) \in defaultExtensions
    /\ pSubGo \notin AcceptedPaths
    /\ pSubReadme \notin AcceptedPaths
    /\ pSubReadme \notin SkippedPaths
    /\ pAGo \in AcceptedPaths

\* the rules of the ignore file that match a path, and the verdict of the last one
MatchingRules(p) ==
    {i \in 1..Len(ignoreLines) : RulePatternMatches(IgnoreRule(ignoreLines[i]).pattern, p)}
LastRuleIgnores(p) ==
    /\ ignoreLines # NoIgnoreFile
    /\ MatchingRules(p) # {}
    /\ LET last == CHOOSE i \in MatchingRules(p) : \A j \in MatchingRules(p) : j <= i
       IN ~IgnoreRule(ignoreLines[last]).negate

\* the skip record of a path carries the ignore-file reason
SkippedByIgnore(path) ==
    \E i \in 1..Len(skippedFiles) :
        skippedFiles[i].path = path /\ skippedFiles[i].reason = "excluded by ignore file"

\* v3's checks behind the ignore check
PassesChecksAfterIgnore(p) ==
    /\ ToLower(Ext(p)) \notin excludedExtsMap
    /\ (langOnly => ToLower(Ext(p)) \in languageExtKeys)
    /\ fs[p].err = "none"
    /\ fs[p].size > 0
    /\ fs[p].size <= maxSizeBytes

AcceptedByConfig == {p \in Entries \ Dirs : ~Pruned(p) /\ Callback(p).files # <<>>}

\* the place of each regular file of the tree in the output order: readmes
\* (whatever the case of the name) first, then the byte order of the paths
Before(p, q) ==
    IF IsReadme(p) # IsReadme(q) THEN IsReadme(p) ELSE StrLess(ToSlash(p), ToSlash(q))
TreeRank ==
    [p \in Entries \ Dirs |-> Cardinality({q \in Entries \ Dirs : Before(q, p)})]

\* the fileData of a set of files, in the output order
ByRank(S) ==
    [i \in 1..Cardinality(S) |->
        LET p == CHOOSE x \in S : Cardinality({y \in S : TreeRank[y] < TreeRank[x]}) = i - 1
        IN [path |-> ToSlash(p), content |-> fs[p].rsize]]

\* rearrangements of files: the reverse, and each exchange of two neighbours
Reverse(q) == [i \in 1..Len(q) |-> q[Len(q) + 1 - i]]
Exchange(q, k) ==
    [i \in 1..Len(q) |-> IF i = k THEN q[k + 1] ELSE IF i = k + 1 THEN q[k] ELSE q[i]]
Rearrangements == {Reverse(files)} \cup {Exchange(files, k) : k \in 1..(Len(files) - 1)}

\* the output the configuration, the tree and the flags determine
DeterminedOutput ==
    LET selected == AcceptedByConfig
    IN IF selected = {} THEN <<>>
       ELSE Build(variant, outFormat, ByRank(selected), prependPath)

\* C13: the output is a function of the tree and the configuration.  After the
\* walk the accepted files are those the configuration selects, each once and
\* with the bytes on disk.  Once sorted, every two of them are strictly ordered
\* by the less function, one way only, and sorting a rearrangement gives the
\* same sequence, so the order of the appends does not show.  What is printed
\* is the serialization of the selection in the output order.
C13_Deterministic ==
    /\ pc = "sorted" =>
          /\ AcceptedPaths = {ToSlash(p) : p \in AcceptedByConfig}
          /\ Len(files) = Cardinality(AcceptedByConfig)
          /\ \A i \in 1..Len(files) : files[i].content = fs[files[i].path].rsize
          /\ \A i, j \in 1..Len(files) :
                i < j => (Less(files[i], files[j]) /\ ~Less(files[j], files[i]))
          /\ \A q \in Rearrangements : SortFiles(q) = files
    /\ pc = "done" => stdout = DeterminedOutput

\* C13 witness: a run printed four files as Markdown; the sorted order
\* (Readme.MD, sub/README.md, a.go, sub.go) differs from the order of the
\* appends (Readme.MD, a.go, sub/README.md, sub.go).
C13_Witness ==
    /\ pc = "done"
    /\ outFormat = "markdown"
    /\ Len(files) = 4
    /\ files[1].path = pReadme
    /\ files[2].path = pSubReadme
    /\ files[3].path = pAGo
    /\ files[4].path = pSubGo
    /\ stdout # <<>>
    /\ stdout = DeterminedOutput

\* C14: a run that accepted no file ends with status 0, has printed nothing,
\* whichever format was asked for, and has logged the one line that says that
\* no file matched.
C14_NoFilesNoOutput ==
    (pc = "done" /\ files = <<>>) =>
        /\ ExitStatus = 0
        /\ stdout = <<>>
        /\ Len(stderr) = 1
        /\ stderr[1].msg = "No files matched. No output generated."

\* C14 witness: a run asked for Claude XML whose walk rejected every file (and
\* recorded at least one of them) has returned.
C14_Witness ==
    /\ pc = "done"
    /\ files = <<>>
    /\ outFormat = "xml"
    /\ skippedFiles # <<>>
    /\ stdout = <<>>
    /\ stderr # <<>>

\* the slash-normalized join of each prefix with a relative path
JoinedPath(prefix, path) ==
    CASE prefix = <<>> -> path
      [] prefix = <<".", "/", "q", "/">> -> <<"q", "/">> \o path

\* the files as printed in a format, each under the path given for it
RECURSIVE EmittedFiles(_, _, _, _)
EmittedFiles(v, fmt, fileSeq, prefix) ==
    IF fileSeq = <<>> THEN <<>>
    ELSE LET file == Head(fileSeq)
             bytes == ContentBytes(file.path, fs[file.path].rsize)
             outputPath == JoinedPath(prefix, file.path)
         IN (CASE fmt = "markdown" -> MarkdownFile(v, file.path, outputPath, bytes)
               [] fmt = "xml" -> ClaudeXMLFile(outputPath, bytes)
               [] OTHER -> StandardTextFile(outputPath, bytes))
            \o EmittedFiles(v, fmt, Tail(fileSeq), prefix)
Emitted(v, fmt, fileSeq, prefix) ==
    IF fmt = "xml" THEN XMLOpen \o EmittedFiles(v, fmt, fileSeq, prefix) \o XMLClose
    ELSE EmittedFiles(v, fmt, fileSeq, prefix)

\* C15: whatever the prefix, after the run files holds relative paths of files
\* of the tree (with a prefix too, those that the rest of the configuration
\* selects), in the output order of those paths, each with the bytes read; the
\* output lists the files in that order, each under the slash-normalized join
\* of the prefix and its relative path, with the language hint of the relative
\* path and its content.
C15_PrependOnlyRewritesPaths ==
    (pc = "done" /\ files # <<>>) =>
        /\ AcceptedPaths \subseteq {ToSlash(p) : p \in RegularFiles}
        /\ (prependPath # <<>> => AcceptedPaths = {ToSlash(p) : p \in AcceptedByConfig})
        /\ \A i \in 1..Len(files) : files[i].content = fs[files[i].path].rsize
        /\ \A i \in 1..(Len(files) - 1) :
              TreeRank[files[i].path] < TreeRank[files[i + 1].path]
        /\ stdout = Emitted(variant, outFormat, files, prependPath)

\* C15 witness: a run with -p ./q/ printed at least three files as Markdown;
\* the first, Readme.MD, appears as q/Readme.MD with the hint "markdown".
C15_Witness ==
    /\ pc = "done"
    /\ variant = "v2"
    /\ prependPath = <<".", "/", "q", "/">>
    /\ outFormat = "markdown"
    /\ Len(files) >= 3
    /\ files[1].path = pReadme
    /\ HasPrefix(stdout, <<"BQ","BQ","BQ">> \o <<"m","a","r","k","d","o","w","n">>
                         \o <<" ","p","a","t","h","=">> \o <<"q","/">> \o pReadme \o <<"\n">>)

\* C16: every accepted file's content is non-empty, at most the size limit,
\* and of the size the stat-based check saw.
C16_ContentWithinLimit ==
    \A i \in 1..Len(files) :
        /\ files[i].content > 0
        /\ files[i].content <= maxSizeBytes
        /\ files[i].content = fs[files[i].path].size

====
